---- MODULE Spec2Model ----
(***************************************************************************)
(* Model of parser_engine.go: the provider call (getAIConfig, callAIAPI),  *)
(* the command sanitizer (sanitizeCommand and its helpers) and the         *)
(* orchestrator TranslateToCommand.                                        *)
(*                                                                         *)
(* A Go string is modelled as a sequence of characters (short strings), so *)
(* that trimming, splitting, lower-casing and the three regular            *)
(* expressions of the sanitizer are computed character by character.       *)
(***************************************************************************)
EXTENDS Integers, Sequences, FiniteSets, TLC

VARIABLES
    pc,           \* position inside TranslateToCommand / callAIAPI
    env,          \* the process environment (AI_PROVIDER, AI_BASE_URL, ...)
    config,       \* AIConfig built by getAIConfig
    request,      \* the HTTP request built by callAIAPI, or NoRequest
    sent,         \* number of HTTP exchanges started by client.Do
    resp,         \* the HTTP response (status code, body), or NoResponse
    unmarshalled, \* TRUE once json.Unmarshal has been applied to the body
    rawResponse,  \* first result of callAIAPI
    apiErr,       \* second result of callAIAPI
    ret,          \* the three results of TranslateToCommand
    strategy,     \* which case of sanitizeCommand produced ret.command
    shape         \* how the generated text was laid out (input bookkeeping)

vars == <<pc, env, config, request, sent, resp, unmarshalled, rawResponse,
          apiErr, ret, strategy, shape>>

-----------------------------------------------------------------------------
(* Bounds *)

\* Longest generated text, in tokens, fed to the sanitizer alone.
MaxTokens == 4
\* Longest generated text, in tokens, carried by a response body.
MaxBodyTokens == 2
\* Most lines inside a fenced block.
MaxLines == 2

-----------------------------------------------------------------------------
(* Characters and strings *)

\* The backquote character (U+0060); the lexer of TLA+ has no literal for it.
BT == "BACKQUOTE"
NL == "\n"
SP == " "

Fence == <<BT, BT, BT>>

\* strings.TrimSpace: white space as defined by Unicode (the ASCII part).
IsSpace(c) == c \in {" ", "\n", "\t", "\r"}

RECURSIVE TrimLeft(_)
TrimLeft(s) ==
    IF s # <<>> /\ IsSpace(Head(s)) THEN TrimLeft(Tail(s)) ELSE s

RECURSIVE TrimRight(_)
TrimRight(s) ==
    IF s # <<>> /\ IsSpace(s[Len(s)])
    THEN TrimRight(SubSeq(s, 1, Len(s) - 1))
    ELSE s

TrimSpace(s) == TrimRight(TrimLeft(s))

\* strings.Split(s, "\n")
RECURSIVE Split(_)
Split(s) ==
    IF \A i \in 1..Len(s) : s[i] # NL
    THEN <<s>>
    ELSE LET i == CHOOSE k \in 1..Len(s) :
                      s[k] = NL /\ \A j \in 1..(k - 1) : s[j] # NL
         IN  <<SubSeq(s, 1, i - 1)>> \o Split(SubSeq(s, i + 1, Len(s)))

HasPrefix(s, p) == Len(p) <= Len(s) /\ SubSeq(s, 1, Len(p)) = p

\* p occurs in s starting at index i
MatchesAt(s, i, p) ==
    i + Len(p) - 1 <= Len(s) /\ SubSeq(s, i, i + Len(p) - 1) = p

UpperChars == <<"A", "B", "C", "D", "E", "F", "G", "H", "I", "J", "K", "L", "M",
                "N", "O", "P", "Q", "R", "S", "T", "U", "V", "W", "X", "Y", "Z">>
LowerChars == <<"a", "b", "c", "d", "e", "f", "g", "h", "i", "j", "k", "l", "m",
                "n", "o", "p", "q", "r", "s", "t", "u", "v", "w", "x", "y", "z">>

LowerChar(c) ==
    IF \E i \in 1..Len(UpperChars) : UpperChars[i] = c
    THEN LowerChars[CHOOSE i \in 1..Len(UpperChars) : UpperChars[i] = c]
    ELSE c

\* strings.ToLower
ToLower(s) == [i \in 1..Len(s) |-> LowerChar(s[i])]

Min(S) == CHOOSE x \in S : \A y \in S : x <= y

-----------------------------------------------------------------------------
(* getFirstNonEmptyLine *)

TrimmedLines(text) ==
    LET lines == Split(text) IN [i \in 1..Len(lines) |-> TrimSpace(lines[i])]

NonEmpty(line) == line # <<>>

getFirstNonEmptyLine(text) ==
    LET kept == SelectSeq(TrimmedLines(text), NonEmpty)
    IN  IF kept = <<>> THEN <<>> ELSE Head(kept)

-----------------------------------------------------------------------------
(* looksLikeExplanation *)

explanationPatterns ==
    << <<"p", "a", "r", "a">>,
       <<"u", "s", "a">>,
       <<"e", "s", "t", "e">>,
       <<"e", "l", " ", "c", "o", "m", "a", "n", "d", "o">>,
       <<"l", "a", " ", "r", "e", "s", "p", "u", "e", "s", "t", "a">>,
       <<"y", "o", "u", " ", "c", "a", "n">>,
       <<"t", "h", "i", "s", " ", "w", "i", "l", "l">>,
       <<"u", "s", "e">>,
       <<"t", "h", "e", " ", "c", "o", "m", "m", "a", "n", "d">> >>

looksLikeExplanation(line) ==
    \E k \in 1..Len(explanationPatterns) :
        HasPrefix(ToLower(line), explanationPatterns[k])

-----------------------------------------------------------------------------
(* The fenced-block pattern: three backquotes, (?:bash|sh|zsh|shell)?,     *)
(* \n?, (.*?), \n?, three backquotes.  Go's regexp returns the leftmost    *)
(* match and, among those, the one a backtracking search finds first; "."  *)
(* does not match a newline.                                               *)

\* The alternatives of the optional tag group in the order they are tried;
\* the last one is the group matching nothing.
fenceTags ==
    << <<"b", "a", "s", "h">>,
       <<"s", "h">>,
       <<"z", "s", "h">>,
       <<"s", "h", "e", "l", "l">>,
       <<>> >>

FenceStarts(s) == {i \in 1..Len(s) : MatchesAt(s, i, Fence)}

\* The submatch (.*?) starts at FenceBodyStart and ends before r[4].
\* r = <<i, t, a, e, c>>: the match starts at i, takes alternative t of the
\* tag group, consumes (a = 0) or skips (a = 1) the first optional newline,
\* captures up to index e - 1, and consumes (c = 0) or skips (c = 1) the
\* second optional newline.
FenceBodyStart(r) == r[1] + 3 + Len(fenceTags[r[2]]) + (1 - r[3])

FenceRunOK(s, r) ==
    LET k     == r[1] + 3 + Len(fenceTags[r[2]])
        start == FenceBodyStart(r)
        e     == r[4]
    IN  /\ MatchesAt(s, r[1] + 3, fenceTags[r[2]])
        /\ r[3] = 0 => (k <= Len(s) /\ s[k] = NL)
        /\ e >= start
        /\ \A j \in start..(e - 1) : s[j] # NL
        /\ r[5] = 0 => (e <= Len(s) /\ s[e] = NL)
        /\ MatchesAt(s, e + (1 - r[5]), Fence)

FenceRuns(s) ==
    {r \in FenceStarts(s) \X (1..Len(fenceTags)) \X {0, 1}
              \X (1..(Len(s) + 1)) \X {0, 1} : FenceRunOK(s, r)}

RECURSIVE LexLess(_, _)
LexLess(p, q) ==
    /\ p # <<>>
    /\ \/ Head(p) < Head(q)
       \/ Head(p) = Head(q) /\ LexLess(Tail(p), Tail(q))

\* Leftmost start; then the earlier tag alternative; greedy \n?; lazy .*?
FirstFenceRun(s) ==
    CHOOSE r \in FenceRuns(s) : \A q \in FenceRuns(s) : q = r \/ LexLess(r, q)

FenceMatches(s) == FenceRuns(s) # {}

\* matches[1] of backtickRegex.FindStringSubmatch
FenceGroup(s) ==
    LET r == FirstFenceRun(s) IN SubSeq(s, FenceBodyStart(r), r[4] - 1)

-----------------------------------------------------------------------------
(* The inline pattern: a backquote, [^`]+, a backquote.                    *)

InlineStarts(s) ==
    {i \in 1..Len(s) : /\ s[i] = BT
                       /\ i + 2 <= Len(s)
                       /\ s[i + 1] # BT
                       /\ \E j \in (i + 2)..Len(s) : s[j] = BT}

InlineMatches(s) == InlineStarts(s) # {}

\* matches[1] of inlineRegex.FindStringSubmatch
InlineGroup(s) ==
    LET i == Min(InlineStarts(s))
        j == Min({k \in (i + 2)..Len(s) : s[k] = BT})
    IN  SubSeq(s, i + 1, j - 1)

-----------------------------------------------------------------------------
(* The prompt pattern ^\$|^\s*neri>|^\s*Emiliano> replaced by "".          *)

neriPrompt == <<"n", "e", "r", "i", ">">>
emilianoPrompt == <<"E", "m", "i", "l", "i", "a", "n", "o", ">">>

\* \s of Go's regexp: [\t\n\f\r ]
RECURSIVE SkipRegexpSpace(_)
SkipRegexpSpace(s) ==
    IF s # <<>> /\ Head(s) \in {" ", "\n", "\t", "\r", "\f"}
    THEN SkipRegexpSpace(Tail(s))
    ELSE s

Drop(s, n) == SubSeq(s, n + 1, Len(s))

\* A pattern without the ^ anchors: every "$" goes.
StripPromptUnanchored(line) == SelectSeq(line, LAMBDA c : c # "$")

\* ^ matches at the start of the text only, so at most one match is replaced.
StripPrompt(line) ==
    IF HasPrefix(line, <<"$">>) THEN Tail(line)
    ELSE IF HasPrefix(SkipRegexpSpace(line), neriPrompt)
         THEN Drop(SkipRegexpSpace(line), Len(neriPrompt))
    ELSE IF HasPrefix(SkipRegexpSpace(line), emilianoPrompt)
         THEN Drop(SkipRegexpSpace(line), Len(emilianoPrompt))
    ELSE line

-----------------------------------------------------------------------------
(* sanitizeCommand *)

\* Case 1, taken when the fenced-block pattern matches.
\* What the case would return if a blank interior fell back on the whole text.
FencedBlockWholeText(raw) ==
    LET command == TrimSpace(FenceGroup(raw))
    IN  IF command = <<>> THEN getFirstNonEmptyLine(raw)
        ELSE getFirstNonEmptyLine(command)

FencedBlock(raw) ==
    LET command == TrimSpace(FenceGroup(raw))
    IN  getFirstNonEmptyLine(command)

\* Case 2, taken when the inline pattern matches.
InlineSpan(raw) == TrimSpace(InlineGroup(raw))

\* Case 3: the lines the loop would return from.
IsCommandLine(line) == line # <<>> /\ ~looksLikeExplanation(line)

CommandLines(raw) == SelectSeq(TrimmedLines(raw), IsCommandLine)

\* The loop body without the second TrimSpace.
BestPlainLineNoRetrim(raw) == StripPrompt(Head(CommandLines(raw)))

BestPlainLine(raw) == TrimSpace(StripPrompt(Head(CommandLines(raw))))

\* Which case returns, for the text as passed in.
Strategy(text) ==
    LET raw == TrimSpace(text)
    IN  IF FenceMatches(raw) THEN "fenced"
        ELSE IF InlineMatches(raw) THEN "inline"
        ELSE IF CommandLines(raw) # <<>> THEN "plain"
        ELSE "fallback"

sanitizeCommand(text) ==
    LET raw == TrimSpace(text)
    IN  IF FenceMatches(raw) THEN FencedBlock(raw)
        ELSE IF InlineMatches(raw) THEN InlineSpan(raw)
        ELSE IF CommandLines(raw) # <<>> THEN BestPlainLine(raw)
        ELSE getFirstNonEmptyLine(raw)

-----------------------------------------------------------------------------
(* Generated texts *)

\* The pieces generated texts are built from.
Tokens ==
    { <<BT>>, Fence, <<NL>>, <<SP>>, <<"$">>,
      <<"l", "s">>,
      <<"U", "s", "e">>,
      <<"s", "h">>,
      neriPrompt }

RECURSIVE TextsUpTo(_)
TextsUpTo(n) ==
    IF n = 0 THEN {<<>>}
    ELSE LET shorter == TextsUpTo(n - 1)
         IN  shorter \cup {t \o tok : t \in shorter, tok \in Tokens}

RECURSIVE Join(_)
Join(lines) ==
    IF Len(lines) = 0 THEN <<>>
    ELSE IF Len(lines) = 1 THEN lines[1]
    ELSE lines[1] \o <<NL>> \o Join(Tail(lines))

\* A text with a fenced block: what precedes it, its tag, its interior
\* lines, whether a newline follows the tag and precedes the closing fence,
\* and the inline span after it (<<>>: none).
FenceLines == { <<>>, <<SP>>, <<"l", "s">>, <<SP, "l", "s", SP>>, <<"#", "x">> }
FenceTagsUsed == { <<>>, <<"s", "h">>, <<"s", "h", "e", "l", "l">> }
FencePreambles == { <<>>, <<"U", "s", "e", ":", NL>> }
SpanTexts == { <<>>, <<"p", "w", "d">> }

RECURSIVE SeqsUpTo(_, _)
SeqsUpTo(S, n) ==
    IF n = 0 THEN {<<>>}
    ELSE LET shorter == SeqsUpTo(S, n - 1)
         IN  shorter \cup {Append(q, x) : q \in shorter, x \in S}

FenceShapes ==
    { sh \in [pre : FencePreambles, tag : FenceTagsUsed, nlOpen : BOOLEAN,
              lines : SeqsUpTo(FenceLines, MaxLines) \ {<<>>},
              nlClose : BOOLEAN, span : SpanTexts] :
        sh.tag # <<>> => sh.nlOpen }

NoShape == [pre |-> <<>>, tag |-> <<>>, nlOpen |-> FALSE, lines |-> <<>>,
            nlClose |-> FALSE, span |-> <<>>]

ShapeText(sh) ==
    sh.pre \o Fence \o sh.tag \o (IF sh.nlOpen THEN <<NL>> ELSE <<>>)
      \o Join(sh.lines) \o (IF sh.nlClose THEN <<NL>> ELSE <<>>) \o Fence
      \o (IF sh.span = <<>> THEN <<>> ELSE <<SP, BT>> \o sh.span \o <<BT>>)

-----------------------------------------------------------------------------
(* getAIConfig *)

\* The values of AI_PROVIDER, AI_API_KEY tried ("" is: not set).
EnvProviders == {"", "openai", "gemini", "ollama", "claude", "OpenAI"}
EnvKeys == {"", "sk-1"}
Envs == [AI_PROVIDER : EnvProviders, AI_BASE_URL : {""}, AI_API_KEY : EnvKeys,
         AI_MODEL : {""}]

SupportedProviders == {"openai", "gemini", "ollama"}

getEnvOrDefault(value, defaultValue) ==
    IF value # "" THEN value ELSE defaultValue

\* The switch of getAIConfig on the provider already read.
ConfigFor(provider, e) ==
    CASE provider = "openai" ->
           [Provider |-> provider,
            BaseURL  |-> getEnvOrDefault(e.AI_BASE_URL,
                           "https://api.openai.com/v1/chat/completions"),
            APIKey   |-> e.AI_API_KEY,
            Model    |-> getEnvOrDefault(e.AI_MODEL, "gpt-3.5-turbo")]
      [] provider = "gemini" ->
           [Provider |-> provider,
            BaseURL  |-> getEnvOrDefault(e.AI_BASE_URL,
                           "https://generativelanguage.googleapis.com/v1beta/models"),
            APIKey   |-> e.AI_API_KEY,
            Model    |-> getEnvOrDefault(e.AI_MODEL, "gemini-pro")]
      [] provider = "ollama" ->
           [Provider |-> provider,
            BaseURL  |-> getEnvOrDefault(e.AI_BASE_URL,
                           "http://localhost:11434/api/generate"),
            APIKey   |-> "",
            Model    |-> getEnvOrDefault(e.AI_MODEL, "llama2")]
      [] OTHER ->
           [Provider |-> provider, BaseURL |-> "", APIKey |-> "", Model |-> ""]

\* A resolver that replaces a provider it does not know by the default.
getAIConfigFallsBack(e) ==
    ConfigFor(IF e.AI_PROVIDER \in SupportedProviders THEN e.AI_PROVIDER
              ELSE "ollama", e)

getAIConfig(e) == ConfigFor(getEnvOrDefault(e.AI_PROVIDER, "ollama"), e)

NoConfig == [Provider |-> "", BaseURL |-> "", APIKey |-> "", Model |-> ""]

-----------------------------------------------------------------------------
(* callAIAPI *)

NoError == [kind |-> "nil", detail |-> <<>>]
ErrUnsupported(provider) == [kind |-> "UnsupportedProvider", detail |-> <<provider>>]
ErrTransport == [kind |-> "Transport", detail |-> <<>>]
ErrHTTPStatus(code, body) == [kind |-> "HTTPStatus", detail |-> <<code, body>>]
ErrMalformed(provider) == [kind |-> "Malformed", detail |-> <<provider>>]

NoRequest == [endpoint |-> <<>>, payload |-> "none", headers |-> {}]

\* The endpoint, the payload shape and the headers set before client.Do.
BuildRequest(cfg) ==
    LET contentType == {<<"Content-Type", "application/json">>}
    IN  CASE cfg.Provider = "openai" ->
               [endpoint |-> <<cfg.BaseURL>>,
                payload  |-> "messages",
                headers  |-> contentType \cup
                             (IF cfg.APIKey # ""
                              THEN {<<"Authorization", "Bearer " \o cfg.APIKey>>}
                              ELSE {})]
          [] cfg.Provider = "gemini" ->
               [endpoint |-> <<cfg.BaseURL, "/", cfg.Model,
                               ":generateContent?key=", cfg.APIKey>>,
                payload  |-> "contents",
                headers  |-> contentType]
          [] cfg.Provider = "ollama" ->
               [endpoint |-> <<cfg.BaseURL>>,
                payload  |-> "prompt",
                headers  |-> contentType]

\* Response bodies: bytes that are no JSON document, or a JSON object with
\* the fields the three response types read (a field left out decodes to
\* the zero value, an unknown field is ignored).
NoBody == [json |-> "none", choices |-> <<>>, candidates |-> <<>>, response |-> <<>>]

Garbage == [json |-> "garbage", choices |-> <<>>, candidates |-> <<>>,
            response |-> <<>>]

JSONObject(choices, candidates, response) ==
    [json |-> "object", choices |-> choices, candidates |-> candidates,
     response |-> response]

BodyTexts == TextsUpTo(MaxBodyTokens)

Bodies ==
    {Garbage, JSONObject(<<>>, <<>>, <<>>), JSONObject(<<>>, << <<>> >>, <<>>)}
      \cup {JSONObject(<<t>>, <<>>, <<>>) : t \in BodyTexts}
      \cup {JSONObject(<<t, <<"l", "s">> >>, <<>>, <<>>) : t \in {<<>>, <<"$">>}}
      \cup {JSONObject(<<>>, << <<t>> >>, <<>>) : t \in BodyTexts}
      \cup {JSONObject(<<>>, <<>>, t) : t \in BodyTexts}

StatusCodes == {200, 399, 400, 500}

NoResponse == [status |-> 0, body |-> NoBody]

\* The lowest status code reported as an HTTP error.
HTTPErrorFloor == 400

IsHTTPErrorAbove(status) == status > HTTPErrorFloor

IsHTTPError(status) == status >= HTTPErrorFloor

\* json.Unmarshal into the provider's response type and the field read.
Decode(provider, body) ==
    IF body.json # "object" THEN [err |-> ErrMalformed(provider), text |-> <<>>]
    ELSE CASE provider = "openai" ->
                [err |-> NoError,
                 text |-> IF Len(body.choices) > 0 THEN body.choices[1] ELSE <<>>]
           [] provider = "gemini" ->
                [err |-> NoError,
                 text |-> IF Len(body.candidates) > 0 /\ Len(body.candidates[1]) > 0
                          THEN body.candidates[1][1] ELSE <<>>]
           [] provider = "ollama" ->
                [err |-> NoError, text |-> body.response]

\* callAIAPI up to the point where the request is ready: getAIConfig, the
\* switch on the provider, http.NewRequest and the headers.
CallStart ==
    /\ pc = "start"
    /\ config' = getAIConfig(env)
    /\ IF config'.Provider \in SupportedProviders
       THEN /\ request' = BuildRequest(config')
            /\ pc' = "sending"
            /\ UNCHANGED apiErr
       ELSE /\ apiErr' = ErrUnsupported(config'.Provider)
            /\ pc' = "apiReturned"
            /\ UNCHANGED request
    /\ UNCHANGED <<env, sent, resp, unmarshalled, rawResponse, ret, strategy, shape>>

\* client.Do or io.ReadAll fails.
ClientDoFails ==
    /\ pc = "sending"
    /\ sent' = sent + 1
    /\ apiErr' = ErrTransport
    /\ pc' = "apiReturned"
    /\ UNCHANGED <<env, config, request, resp, unmarshalled, rawResponse, ret,
                   strategy, shape>>

\* client.Do and io.ReadAll succeed: any status, any body.
ClientDoResponds ==
    /\ pc = "sending"
    /\ sent' = sent + 1
    /\ \E status \in StatusCodes, body \in Bodies :
           resp' = [status |-> status, body |-> body]
    /\ pc' = "responded"
    /\ UNCHANGED <<env, config, request, unmarshalled, rawResponse, apiErr, ret,
                   strategy, shape>>

\* The status check and the provider's decoding.
HandleResponse ==
    /\ pc = "responded"
    /\ IF IsHTTPError(resp.status)
       THEN /\ apiErr' = ErrHTTPStatus(resp.status, resp.body)
            /\ UNCHANGED <<rawResponse, unmarshalled>>
       ELSE /\ unmarshalled' = TRUE
            /\ apiErr' = Decode(config.Provider, resp.body).err
            /\ rawResponse' = Decode(config.Provider, resp.body).text
    /\ pc' = "apiReturned"
    /\ UNCHANGED <<env, config, request, sent, resp, ret, strategy, shape>>

-----------------------------------------------------------------------------
(* TranslateToCommand *)

ErrConnectionFailed(cause) == [kind |-> "ConnectionFailed", detail |-> <<cause>>]
ErrNoCommandExtracted == [kind |-> "NoCommandExtracted", detail |-> <<>>]

NoReturn == [raw |-> <<>>, command |-> <<>>, err |-> NoError]

\* An orchestrator that drops the raw text when nothing was extracted.
TranslateResultDropsRaw(raw, err) ==
    IF err.kind # "nil"
    THEN [raw |-> <<>>, command |-> <<>>, err |-> ErrConnectionFailed(err)]
    ELSE LET sanitizedCommand == sanitizeCommand(raw)
         IN  IF sanitizedCommand = <<>>
             THEN [raw |-> <<>>, command |-> <<>>, err |-> ErrNoCommandExtracted]
             ELSE [raw |-> raw, command |-> sanitizedCommand, err |-> NoError]

\* What TranslateToCommand returns, given what callAIAPI returned.
TranslateResult(raw, err) ==
    IF err.kind # "nil"
    THEN [raw |-> <<>>, command |-> <<>>, err |-> ErrConnectionFailed(err)]
    ELSE LET sanitizedCommand == sanitizeCommand(raw)
         IN  IF sanitizedCommand = <<>>
             THEN [raw |-> raw, command |-> <<>>, err |-> ErrNoCommandExtracted]
             ELSE [raw |-> raw, command |-> sanitizedCommand, err |-> NoError]

TranslateFinish ==
    /\ pc = "apiReturned"
    /\ ret' = TranslateResult(rawResponse, apiErr)
    /\ strategy' = IF apiErr.kind # "nil" THEN "none" ELSE Strategy(rawResponse)
    /\ pc' = "done"
    /\ UNCHANGED <<env, config, request, sent, resp, unmarshalled, rawResponse,
                   apiErr, shape>>

-----------------------------------------------------------------------------
(* Specifications *)

\* One call of TranslateToCommand, from the environment to the results.
Init ==
    /\ pc = "start"
    /\ env \in Envs
    /\ config = NoConfig
    /\ request = NoRequest
    /\ sent = 0
    /\ resp = NoResponse
    /\ unmarshalled = FALSE
    /\ rawResponse = <<>>
    /\ apiErr = NoError
    /\ ret = NoReturn
    /\ strategy = "none"
    /\ shape = NoShape

Next ==
    \/ CallStart
    \/ ClientDoFails
    \/ ClientDoResponds
    \/ HandleResponse
    \/ TranslateFinish

Spec == Init /\ [][Next]_vars

\* The state in which callAIAPI has just returned `text` without an error.
ApiReturned(text, sh) ==
    /\ pc = "apiReturned"
    /\ env = [AI_PROVIDER |-> "", AI_BASE_URL |-> "", AI_API_KEY |-> "",
              AI_MODEL |-> ""]
    /\ config = getAIConfig(env)
    /\ request = BuildRequest(config)
    /\ sent = 1
    /\ resp = [status |-> 200, body |-> JSONObject(<<>>, <<>>, text)]
    /\ unmarshalled = TRUE
    /\ rawResponse = text
    /\ apiErr = NoError
    /\ ret = NoReturn
    /\ strategy = "none"
    /\ shape = sh

\* The sanitizer on every text of at most MaxTokens tokens.
InitSanitize == \E text \in TextsUpTo(MaxTokens) : ApiReturned(text, NoShape)

NextSanitize == TranslateFinish

SpecSanitize == InitSanitize /\ [][NextSanitize]_vars

\* The sanitizer on texts that hold a fenced block.
InitFence == \E sh \in FenceShapes : ApiReturned(ShapeText(sh), sh)

NextFence == TranslateFinish

SpecFence == InitFence /\ [][NextFence]_vars

-----------------------------------------------------------------------------
(* Properties *)

\* TranslateToCommand has returned and callAIAPI had given it a text.
Sanitized == pc = "done" /\ apiErr.kind = "nil"

HasNewline(s) == \E i \in 1..Len(s) : s[i] = NL
HasBackquote(s) == \E i \in 1..Len(s) : s[i] = BT
HasNonBlankLine(s) == \E i \in 1..Len(Split(s)) : TrimSpace(Split(s)[i]) # <<>>

\* a occurs in b as a run of consecutive characters
IsInfix(a, b) ==
    \E i \in 0..(Len(b) - Len(a)) : SubSeq(b, i + 1, i + Len(a)) = a

StartsWithExplanationPhrase(c) ==
    \E k \in 1..Len(explanationPatterns) :
        HasPrefix(ToLower(TrimSpace(c)), explanationPatterns[k])

StartsWithPrompt(c) ==
    \/ HasPrefix(TrimSpace(c), <<"$">>)
    \/ HasPrefix(TrimSpace(c), neriPrompt)
    \/ HasPrefix(TrimSpace(c), emilianoPrompt)

\* A single line without backquotes that opens with no explanation phrase.
BareCommand(c) ==
    ~HasNewline(c) /\ ~HasBackquote(c) /\ ~StartsWithExplanationPhrase(c)

\* The first non-blank line of a fenced block's interior, trimmed.
FirstInteriorLine(lines) ==
    TrimSpace(lines[Min({i \in 1..Len(lines) : TrimSpace(lines[i]) # <<>>})])

HasInteriorLine(lines) == \E i \in 1..Len(lines) : TrimSpace(lines[i]) # <<>>

\* The fenced-block pattern matches the trimmed text and captures only blanks.
BlankFence(text) ==
    /\ FenceMatches(TrimSpace(text))
    /\ TrimSpace(FenceGroup(TrimSpace(text))) = <<>>

\* C1: the command returned by sanitizeCommand never contains a newline,
\* whichever strategy produced it.
C1_NoEmbeddedNewline == Sanitized => ~HasNewline(ret.command)

\* C2: a text with at least one non-blank line yields a non-empty command;
\* the command is empty, and NoCommandExtracted reported, only for a text
\* that is empty or white space.
C2_FallbackTotality ==
    Sanitized =>
        /\ HasNonBlankLine(rawResponse) => ret.command # <<>>
        /\ ret.err.kind = "NoCommandExtracted" => TrimSpace(rawResponse) = <<>>

\* C3 as stated: a single-line text without backquotes that opens with no
\* explanation phrase is returned as its trimmed self.
C3_BareCommandUnchanged ==
    (Sanitized /\ BareCommand(rawResponse))
        => ret.command = TrimSpace(rawResponse)

\* C3 amended: a single-line text without backquotes that opens with no
\* explanation phrase and with no shell-prompt marker ($, neri>, Emiliano>)
\* is returned as its trimmed self.
C3_BareCommandWithoutPromptUnchanged ==
    (Sanitized /\ BareCommand(rawResponse) /\ ~StartsWithPrompt(rawResponse))
        => ret.command = TrimSpace(rawResponse)

\* A bare command surrounded by white space, with a "$" that is no prompt,
\* has been sanitized to its trimmed self.
C3_Witness ==
    /\ Sanitized
    /\ BareCommand(rawResponse) /\ ~StartsWithPrompt(rawResponse)
    /\ TrimSpace(rawResponse) # rawResponse
    /\ \E i \in 1..Len(rawResponse) : rawResponse[i] = "$"
    /\ ret.command = TrimSpace(rawResponse)
    /\ ret.command # <<>>

\* C4: for a text holding a fenced block whose interior has a non-blank
\* line, the command is exactly the trimmed first non-blank interior line.
C4_FirstLineOfFence ==
    (Sanitized /\ shape.lines # <<>> /\ HasInteriorLine(shape.lines))
        => ret.command = FirstInteriorLine(shape.lines)

\* C5: for a text holding a fenced block and an inline span after it, the
\* command is taken from the interior of the fenced block and is not the
\* interior of the inline span.
C5_FenceBeforeInlineSpan ==
    (Sanitized /\ shape.lines # <<>> /\ shape.span # <<>>)
        => /\ IsInfix(ret.command, Join(shape.lines))
           /\ ret.command # TrimSpace(shape.span)

\* C6: when callAIAPI returns no error, TranslateToCommand returns the
\* decoded text unchanged as its first result; the error is
\* NoCommandExtracted with an empty command exactly when sanitizeCommand
\* gives the empty string, and otherwise nil with the sanitized command.
C6_RawTextAlwaysReturned ==
    Sanitized =>
        /\ ret.raw = rawResponse
        /\ IF sanitizeCommand(rawResponse) = <<>>
           THEN ret.err = ErrNoCommandExtracted /\ ret.command = <<>>
           ELSE ret.err = NoError /\ ret.command = sanitizeCommand(rawResponse)

\* Nothing was extracted from a text that is not empty, and the text came back.
C6_Witness ==
    /\ Sanitized
    /\ sent = 1 /\ resp.status < 400
    /\ rawResponse # <<>>
    /\ ret.err.kind = "NoCommandExtracted"
    /\ ret.raw = rawResponse

\* C7: once the exchange has completed, a status of 400 or more makes
\* callAIAPI return the HTTP-status error with that code and the raw body,
\* the body never being decoded; a status below 400 never gives that error.
C7_HTTPStatusPrecedence ==
    (pc \in {"apiReturned", "done"} /\ resp # NoResponse) =>
        /\ resp.status >= 400 =>
              /\ apiErr = ErrHTTPStatus(resp.status, resp.body)
              /\ ~unmarshalled
              /\ rawResponse = <<>>
        /\ resp.status < 400 => apiErr.kind # "HTTPStatus"

\* An error status came with a body that decodes to a text for the provider.
C7_Witness ==
    /\ pc = "apiReturned"
    /\ resp.status >= 400
    /\ Decode(config.Provider, resp.body).err = NoError
    /\ Decode(config.Provider, resp.body).text # <<>>
    /\ apiErr.kind = "HTTPStatus"

\* C8: a provider selector outside openai, gemini, ollama is kept as it is
\* by getAIConfig, and the call ends with the unsupported-provider error
\* carrying it, no request being built or sent; an unset selector resolves
\* to ollama and is never rejected.
C8_UnsupportedProviderIsLocal ==
    pc # "start" =>
        /\ env.AI_PROVIDER \notin (SupportedProviders \cup {""}) =>
              /\ config.Provider = env.AI_PROVIDER
              /\ apiErr = ErrUnsupported(env.AI_PROVIDER)
              /\ request = NoRequest
              /\ sent = 0
              /\ resp = NoResponse
              /\ pc = "done" => ret.err = ErrConnectionFailed(apiErr)
        /\ env.AI_PROVIDER = "" =>
              /\ config.Provider = "ollama"
              /\ apiErr.kind # "UnsupportedProvider"

\* The call has ended on an unknown provider.
C8_Witness ==
    /\ pc = "done"
    /\ env.AI_PROVIDER = "claude"
    /\ ret.err.kind = "ConnectionFailed"
    /\ ret.err.detail[1].kind = "UnsupportedProvider"

C10_NoSurroundingWhitespace ==
    (Sanitized /\ ret.command # <<>>)
        => /\ ~IsSpace(ret.command[1])
           /\ ~IsSpace(ret.command[Len(ret.command)])

\* The plain-line strategy stripped a prompt that was followed by a space.
C10_Witness ==
    /\ Sanitized
    /\ strategy = "plain"
    /\ HasPrefix(rawResponse, <<"$", SP>>)
    /\ ret.command = <<"l", "s">>

====
